---- MODULE Spec2Model ----
(***************************************************************************)
(* Procedural lightning generator (src/src/main.cpp): the recursive        *)
(* midpoint-displacement generator with its per-leaf L-system branches,    *)
(* the particle emitter/simulator, and the main loop that drives them.     *)
(*                                                                         *)
(* Units.  Floats are modelled by exact integers in fixed units:           *)
(*   coordinates : Unit model units per 0.5 world units                    *)
(*   time        : 1 model unit = 1/64 s (the emission rate: 1/320 s)      *)
(*   branchChance: quarters (0..4 stands for 0.0 .. 1.0)                   *)
(*   probFF, probPlus, probMinus: tenths                                   *)
(*   a rand() value r in 0..RandMax stands for the float r / RAND_MAX      *)
(* Comparisons of floats are done by cross-multiplication, so they are     *)
(* exact.  rand() reads successive cells of a finite tape that is chosen   *)
(* nondeterministically for every call; past its end the last cell repeats.*)
(***************************************************************************)
EXTENDS Integers, Sequences, FiniteSets, TLC

VARIABLES
    pc,                   \* position of main(): "setup", then the step of the frame
    frameLog,             \* ghost: the steps of the current frame made so far, in order
    sticks,               \* std::vector<Stick> sticks
    maxDepth, displacement, lightningColor,
    branchChance, lsystemIterations, segmentLength,
    particleEmissionRate, particleLifetime,
    isAutoRegenerating,
    lightningVertices,    \* std::vector<float> lightningVertices
    vertexKinds,          \* ghost, parallel to lightningVertices: "main" or "branch"
    vbo,                  \* content of the GPU buffer VBO after the last glBufferData
    particles,            \* std::vector<Particle> particles
    particleTimer,        \* static float particleTimer of main()
    deltaTime,            \* float deltaTime of the current frame
    frame,                \* ghost: frames started so far
    uiEvents,             \* ghost: sliders, Play/Stop and Regenerate operated so far
    call                  \* record of the last direct call made by a function-level specification

vars == <<pc, frameLog, sticks, maxDepth, displacement, lightningColor,
          branchChance, lsystemIterations, segmentLength,
          particleEmissionRate, particleLifetime, isAutoRegenerating,
          lightningVertices, vertexKinds, vbo, particles, particleTimer,
          deltaTime, frame, uiEvents, call>>

----------------------------------------------------------------------------
(* Bounds of the model *)

\* The deepest recursion of a direct call, and the deepest value the slider
\* "Max Depth" (1 .. 10) is moved to
DepthBound == 2
\* rand() returns 0..RandMax (RAND_MAX of the C library)
RandMax == 2
\* Length of the tape of rand() values of a direct call
TapeLen == 4
\* Length of the tape of rand() values of a call made by the frame loop
FrameTapeLen == 2
\* Frames the loop runs, and widgets the user operates
MaxFrames == 2
MaxUIEvents == 1
\* Rewrite passes explored by the function-level specifications
IterBound == 3
\* Sticks the chain may grow to
MaxSticks == 3
\* Particles alive at once
MaxParticles == 2
\* Direct calls of the particle system made in a row
MaxCalls == 3
\* Length of the strings interpretLSystem is called on directly
StrLen == 4

----------------------------------------------------------------------------
(* Program constants and initial values of the globals *)

\* Times (deltaTime, particleTimer, particleLifetime, life, maxLife) are counted in
\* 1/64 s.  A float holds every such time below 2^18 s exactly, and adds, subtracts
\* and compares them without rounding, so the integer arithmetic below is the
\* float arithmetic of the code on these values.  particleEmissionRate, which is
\* only compared, is counted in 1/320 s, so that its initial 0.05f is 16.

probFF == 5
probPlus == 3
probMinus == 2
angleVariance == 45
lsystemIterationsInit == 3
branchChanceInit == 1
particleEmissionRateInit == 16
particleLifetimeInit == 64
segmentLengthInit == 10
maxDepthInit == 5

RECURSIVE Pow2(_)
Pow2(n) == IF n = 0 THEN 1 ELSE 2 * Pow2(n - 1)

\* Model units per 0.5 world units: midpoints and offsets stay integers down to the
\* deepest recursion made, maxDepthInit at startup or DepthBound in a direct call
Unit == 2 * RandMax * Pow2(IF DepthBound > maxDepthInit THEN DepthBound ELSE maxDepthInit)

VSub(a, b) == <<a[1] - b[1], a[2] - b[2], a[3] - b[3]>>

\* The values rand() returns to a direct call
Tapes == [1..TapeLen -> 0..RandMax]
\* The values rand() returns to a call made by the frame loop: 0 (the leaf branches,
\* the triple spawns a particle) and 1 (no branch, no particle)
FrameTapes == [1..FrameTapeLen -> 0..1]

\* rand(): the draw of index k (k counts the draws made so far by the call);
\* past the end of the tape the last cell repeats
Rand(tape, k) == IF k < Len(tape) THEN tape[k + 1] ELSE tape[Len(tape)]

----------------------------------------------------------------------------
(* Values *)

\* A float of a vertex buffer: coordinate c of an anchor or midpoint, moved, on
\* axis ax, by the turtle steps `steps` (each <<direction, angle, length>>).
\* A main-bolt float has no steps.
Float(c) == [c |-> c, ax |-> 0, steps |-> <<>>]

\* glm::vec3 of the turtle: origin o plus the sum of its steps
Pos(o) == [o |-> o, steps |-> <<>>]
Coord(pos, ax) ==
    IF pos.steps = <<>> THEN Float(pos.o[ax])
    ELSE [c |-> pos.o[ax], ax |-> ax, steps |-> pos.steps]

Abs(x) == IF x < 0 THEN -x ELSE x
RECURSIVE Gcd(_, _)
Gcd(a, b) == IF b = 0 THEN a ELSE Gcd(b, a % b)

\* The direction glm::normalize yields for the zero vector (0 * inf = NaN)
NaNDir == <<0, 0, 0>>

\* glm::normalize: parallel vectors of the same sense have one normal form
Normalize(v) ==
    IF v = <<0, 0, 0>> THEN NaNDir
    ELSE LET g == Gcd(Gcd(Abs(v[1]), Abs(v[2])), Abs(v[3]))
         IN  <<v[1] \div g, v[2] \div g, v[3] \div g>>

\* Direction of the turtle: base rotated about the z axis by ang
\* (ang in units of 1/RandMax degree)
Dir(base) == [base |-> base, ang |-> 0]
Rotate(dir, angle) == [dir EXCEPT !.ang = @ + angle]

\* currentPos + currentDir * segmentLength; a step along the direction of the step
\* before is added to it
Advance(pos, dir, len) ==
    LET n == Len(pos.steps)
    IN  IF len = 0 /\ dir.base # NaNDir THEN pos
        ELSE IF n > 0 /\ pos.steps[n][1] = dir.base /\ pos.steps[n][2] = dir.ang
        THEN [pos EXCEPT !.steps[n][3] = @ + len]
        ELSE [pos EXCEPT !.steps = Append(@, <<dir.base, dir.ang, len>>)]

\* What a call appends to the vertex buffer: the floats v with their kinds (ghost,
\* "main" or "branch"), the index k of the next draw of the tape, and ghost
\* counters: base cases reached, branches grown, pops of an empty turtle stack,
\* the depth of the turtle stack at the end of the last interpretation, and the
\* deepest nesting of generateLightning calls below the outermost one
NoVertices(k) ==
    [v |-> <<>>, kinds |-> <<>>, k |-> k, leaves |-> 0, branches |-> 0,
     emptyPops |-> 0, endStack |-> 0, nest |-> 0]

\* vertices.push_back(f)
PushBack(g, f, kind) ==
    [g EXCEPT !.v = Append(@, f), !.kinds = Append(@, kind)]

\* The stream a, then what a later call b appended to it
Then(a, b) ==
    [v |-> a.v \o b.v, kinds |-> a.kinds \o b.kinds, k |-> b.k,
     leaves |-> a.leaves + b.leaves, branches |-> a.branches + b.branches,
     emptyPops |-> a.emptyPops + b.emptyPops, endStack |-> b.endStack,
     nest |-> IF a.nest >= b.nest THEN a.nest ELSE b.nest]

----------------------------------------------------------------------------
(* L-system: generateLSystem, interpretLSystem *)

\* Faulty variant of RewriteF: the rule F -> FF writes a single F
RewriteFSingle(r) ==
    IF r * 10 < probFF * RandMax THEN <<"F">>
    ELSE IF r * 10 < (probFF + probPlus) * RandMax THEN <<"F", "[", "+", "F", "]">>
    ELSE <<"F", "[", "-", "F", "]">>

\* Faulty variant of RewriteF: the rule F -> F[+F] does not close its bracket
RewriteFUnclosed(r) ==
    IF r * 10 < probFF * RandMax THEN <<"F", "F">>
    ELSE IF r * 10 < (probFF + probPlus) * RandMax THEN <<"F", "[", "+", "F">>
    ELSE <<"F", "[", "-", "F", "]">>

\* Faulty variant of RewriteF: the first rule erases the 'F'
RewriteFErase(r) ==
    IF r * 10 < probFF * RandMax THEN <<>>
    ELSE IF r * 10 < (probFF + probPlus) * RandMax THEN <<"F", "[", "+", "F", "]">>
    ELSE <<"F", "[", "-", "F", "]">>

\* Faulty variant of RewriteF: the rules F[+F] and F[-F] have changed places
RewriteFSwapped(r) ==
    IF r * 10 < probFF * RandMax THEN <<"F", "F">>
    ELSE IF r * 10 < (probFF + probPlus) * RandMax THEN <<"F", "[", "-", "F", "]">>
    ELSE <<"F", "[", "+", "F", "]">>

\* Faulty variant of RewriteF: the first rule yields three 'F'
RewriteFTriple(r) ==
    IF r * 10 < probFF * RandMax THEN <<"F", "F", "F">>
    ELSE IF r * 10 < (probFF + probPlus) * RandMax THEN <<"F", "[", "+", "F", "]">>
    ELSE <<"F", "[", "-", "F", "]">>

\* The replacement of one 'F' for the draw r
RewriteF(r) ==
    IF r * 10 < probFF * RandMax THEN <<"F", "F">>
    ELSE IF r * 10 < (probFF + probPlus) * RandMax THEN <<"F", "[", "+", "F", "]">>
    ELSE <<"F", "[", "-", "F", "]">>

\* The inner loop of generateLSystem over `result`; w = [i, next, k]
RECURSIVE RewritePass(_, _, _)
RewritePass(result, w, tape) ==
    IF w.i > Len(result) THEN w
    ELSE IF result[w.i] = "F"
         THEN RewritePass(result,
                          [i |-> w.i + 1, next |-> w.next \o RewriteF(Rand(tape, w.k)),
                           k |-> w.k + 1], tape)
         ELSE RewritePass(result,
                          [i |-> w.i + 1, next |-> Append(w.next, result[w.i]),
                           k |-> w.k], tape)

\* The outer loop: pass i of `iterations`; l = [s, k]
RECURSIVE LSystemLoop(_, _, _, _)
LSystemLoop(l, i, iterations, tape) ==
    IF i >= iterations THEN l
    ELSE LET w == RewritePass(l.s, [i |-> 1, next |-> <<>>, k |-> l.k], tape)
         IN  LSystemLoop([s |-> w.next, k |-> w.k], i + 1, iterations, tape)

\* Faulty variant of generateLSystem: the pass runs before the test of the loop
generateLSystemDoWhile(axiom, iterations, tape, k) ==
    LET w == RewritePass(axiom, [i |-> 1, next |-> <<>>, k |-> k], tape)
    IN  LSystemLoop([s |-> w.next, k |-> w.k], 1, iterations, tape)

\* generateLSystem(axiom, iterations): the string s, and the next draw k
generateLSystem(axiom, iterations, tape, k) ==
    LSystemLoop([s |-> axiom, k |-> k], 0, iterations, tape)

\* Faulty variant of Pop: the direction is not restored
PopKeepDir(t) ==
    [t EXCEPT !.pos = t.stack[Len(t.stack)].pos,
              !.stack = SubSeq(@, 1, Len(@) - 1)]

\* currentPos = top().pos; currentDir = top().dir; stateStack.pop()
Pop(t) ==
    [t EXCEPT !.pos = t.stack[Len(t.stack)].pos,
              !.dir = t.stack[Len(t.stack)].dir,
              !.stack = SubSeq(@, 1, Len(@) - 1)]

\* Faulty variant of CloseBracket: on an empty stack the turtle is reset to a
\* default-constructed State
CloseBracketReset(t) ==
    IF t.stack # <<>> THEN Pop(t)
    ELSE [t EXCEPT !.pos = Pos(<<0, 0, 0>>), !.dir = Dir(NaNDir), !.g.emptyPops = @ + 1]

\* case ']': if (!stateStack.empty()) { restore; pop }; the ghost emptyPops counts
\* the ']' met with an empty stack
CloseBracket(t) ==
    IF t.stack # <<>> THEN Pop(t)
    ELSE [t EXCEPT !.g.emptyPops = @ + 1]

\* Faulty variant of DrawForward: the segment is stored but currentPos stays
DrawForwardInPlace(t, segLen) ==
    LET nextPos == Advance(t.pos, t.dir, segLen)
        g1 == PushBack(t.g, Coord(t.pos, 1), "branch")
        g2 == PushBack(g1, Coord(t.pos, 2), "branch")
        g3 == PushBack(g2, Coord(t.pos, 3), "branch")
        g4 == PushBack(g3, Coord(nextPos, 1), "branch")
        g5 == PushBack(g4, Coord(nextPos, 2), "branch")
        g6 == PushBack(g5, Coord(nextPos, 3), "branch")
    IN  [t EXCEPT !.g = g6]

\* case 'F': nextPos = currentPos + currentDir * segmentLength; six push_back;
\* currentPos = nextPos
DrawForward(t, segLen) ==
    LET nextPos == Advance(t.pos, t.dir, segLen)
        g1 == PushBack(t.g, Coord(t.pos, 1), "branch")
        g2 == PushBack(g1, Coord(t.pos, 2), "branch")
        g3 == PushBack(g2, Coord(t.pos, 3), "branch")
        g4 == PushBack(g3, Coord(nextPos, 1), "branch")
        g5 == PushBack(g4, Coord(nextPos, 2), "branch")
        g6 == PushBack(g5, Coord(nextPos, 3), "branch")
    IN  [t EXCEPT !.pos = nextPos, !.g = g6]

\* One symbol of interpretLSystem's switch; t = [i, pos, dir, stack, g]
InterpretChar(c, t, segLen, angleVar, tape) ==
    IF c = "F" THEN DrawForward(t, segLen)
    ELSE IF c = "+" THEN
        LET angle == angleVar * Rand(tape, t.g.k)
        IN  [t EXCEPT !.dir = Rotate(@, angle), !.g.k = @ + 1]
    ELSE IF c = "-" THEN
        LET angle == angleVar * Rand(tape, t.g.k)
        IN  [t EXCEPT !.dir = Rotate(@, -angle), !.g.k = @ + 1]
    ELSE IF c = "[" THEN
        [t EXCEPT !.stack = Append(@, [pos |-> t.pos, dir |-> t.dir])]
    ELSE IF c = "]" THEN CloseBracket(t)
    ELSE t

\* for (char c : lsystem)
RECURSIVE InterpretLoop(_, _, _, _, _)
InterpretLoop(lsystem, t, segLen, angleVar, tape) ==
    IF t.i > Len(lsystem) THEN t
    ELSE InterpretLoop(lsystem,
                       [InterpretChar(lsystem[t.i], t, segLen, angleVar, tape)
                            EXCEPT !.i = @ + 1],
                       segLen, angleVar, tape)

\* The turtle when interpretLSystem returns
interpretTurtle(lsystem, origin, baseDirection, segLen, angleVar, tape, k) ==
    InterpretLoop(lsystem,
                  [i |-> 1, pos |-> Pos(origin), dir |-> Dir(Normalize(baseDirection)),
                   stack |-> <<>>, g |-> NoVertices(k)],
                  segLen, angleVar, tape)

\* interpretLSystem(lsystem, origin, baseDirection, segmentLength, angleVariance,
\* outVertices): what it appends to outVertices
interpretLSystem(lsystem, origin, baseDirection, segLen, angleVar, tape, k) ==
    LET t == interpretTurtle(lsystem, origin, baseDirection, segLen, angleVar, tape, k)
    IN  [t.g EXCEPT !.endStack = Len(t.stack)]

----------------------------------------------------------------------------
(* Fractal path generator: generateLightning, updateLightning *)

PlusAxiom == <<"[", "+", "F", "]">>
MinusAxiom == <<"[", "-", "F", "]">>

\* (start + end) * 0.5f
Mid(a, b) == <<(a[1] + b[1]) \div 2, (a[2] + b[2]) \div 2, (a[3] + b[3]) \div 2>>

\* Faulty variant of Offset: the jitter is not scaled by displacement
OffsetUnscaled(r, disp) == ((2 * r - RandMax) * Unit) \div (2 * RandMax)

\* (float(rand()) / float(RAND_MAX) - 0.5f) * displacement
Offset(r, disp) == ((2 * r - RandMax) * disp) \div (2 * RandMax)

\* The branch decision of the base case for the draw r:
\* r > branchChance: none; r < probPlus / probFF * branchChance: "[+F]"; else "[-F]"
BranchAxiom(r) ==
    IF r * 4 > branchChance * RandMax THEN <<>>
    ELSE IF r * probFF * 4 < probPlus * branchChance * RandMax THEN PlusAxiom
    ELSE MinusAxiom

\* Faulty variant of EmitLeaf: only the start point is stored
EmitLeafStartOnly(start, end, k) ==
    LET g1 == PushBack(NoVertices(k), Float(start[1]), "main")
        g2 == PushBack(g1, Float(start[2]), "main")
        g3 == PushBack(g2, Float(start[3]), "main")
    IN  [g3 EXCEPT !.leaves = 1]

\* Faulty variant of EmitLeaf: the last push_back (end.z) is missing
EmitLeafNoEndZ(start, end, k) ==
    LET g1 == PushBack(NoVertices(k), Float(start[1]), "main")
        g2 == PushBack(g1, Float(start[2]), "main")
        g3 == PushBack(g2, Float(start[3]), "main")
        g4 == PushBack(g3, Float(end[1]), "main")
        g5 == PushBack(g4, Float(end[2]), "main")
    IN  [g5 EXCEPT !.leaves = 1]

\* Faulty variant of EmitLeaf: the end point is stored before the start point
EmitLeafReversed(start, end, k) ==
    LET g1 == PushBack(NoVertices(k), Float(end[1]), "main")
        g2 == PushBack(g1, Float(end[2]), "main")
        g3 == PushBack(g2, Float(end[3]), "main")
        g4 == PushBack(g3, Float(start[1]), "main")
        g5 == PushBack(g4, Float(start[2]), "main")
        g6 == PushBack(g5, Float(start[3]), "main")
    IN  [g6 EXCEPT !.leaves = 1]

\* The six push_back calls of the base case
EmitLeaf(start, end, k) ==
    LET g1 == PushBack(NoVertices(k), Float(start[1]), "main")
        g2 == PushBack(g1, Float(start[2]), "main")
        g3 == PushBack(g2, Float(start[3]), "main")
        g4 == PushBack(g3, Float(end[1]), "main")
        g5 == PushBack(g4, Float(end[2]), "main")
        g6 == PushBack(g5, Float(end[3]), "main")
    IN  [g6 EXCEPT !.leaves = 1]

\* Faulty variant of GrowBranch: the branch is anchored at the leaf's midpoint
GrowBranchAtMidpoint(axiom, start, end, tape, k) ==
    LET ls == generateLSystem(axiom, lsystemIterations, tape, k)
        b == interpretLSystem(ls.s, Mid(start, end), Normalize(VSub(end, start)),
                              segmentLength, angleVariance, tape, ls.k)
    IN  [b EXCEPT !.branches = 1]

\* generateLSystem of the axiom, then interpretLSystem at the leaf's start
GrowBranch(axiom, start, end, tape, k) ==
    LET ls == generateLSystem(axiom, lsystemIterations, tape, k)
        b == interpretLSystem(ls.s, start, Normalize(VSub(end, start)), segmentLength,
                              angleVariance, tape, ls.k)
    IN  [b EXCEPT !.branches = 1]

\* Faulty variant of Displaced: the two coordinates across the longest extent of
\* the bolt are displaced
DisplacedAcrossBolt(start, end, disp, tape, k) ==
    LET m == Mid(start, end)
        ext == [a \in 1..3 |-> Abs(end[a] - start[a])]
        along == IF ext[1] >= ext[2] /\ ext[1] >= ext[3] THEN 1
                 ELSE IF ext[2] >= ext[3] THEN 2 ELSE 3
        first == IF along = 1 THEN 2 ELSE 1
        second == IF along = 3 THEN 2 ELSE 3
    IN  [a \in 1..3 |-> IF a = first THEN m[a] + Offset(Rand(tape, k), disp)
                        ELSE IF a = second THEN m[a] + Offset(Rand(tape, k + 1), disp)
                        ELSE m[a]]

\* mid = (start + end) * 0.5f; mid.y += offset; mid.z += offset
Displaced(start, end, disp, tape, k) ==
    LET m == Mid(start, end)
    IN  <<m[1], m[2] + Offset(Rand(tape, k), disp), m[3] + Offset(Rand(tape, k + 1), disp)>>

\* Faulty variant of Halved: the displacement is passed on as it is
NotHalved(disp) == disp

\* displacement * 0.5f, the displacement of both recursive calls
Halved(disp) == disp \div 2

\* generateLightning(vertices, start, end, depth, displacement): what it appends
\* to vertices, drawing from index k of the tape on
RECURSIVE generateLightning(_, _, _, _, _, _)
generateLightning(start, end, depth, disp, tape, k) ==
    IF depth = 0 THEN
        LET leaf == EmitLeaf(start, end, k + 1)
            axiom == BranchAxiom(Rand(tape, k))
        IN  IF axiom = <<>> THEN leaf
            ELSE Then(leaf, GrowBranch(axiom, start, end, tape, k + 1))
    ELSE
        LET mid == Displaced(start, end, disp, tape, k)
            left == generateLightning(start, mid, depth - 1, Halved(disp), tape, k + 2)
        IN  [Then(left, generateLightning(mid, end, depth - 1, Halved(disp), tape, left.k))
                EXCEPT !.nest = @ + 1]

\* Faulty variant of StickTop: the foot of the stick
StickFoot(s) == <<s.position[1], s.position[2], s.position[3]>>

\* Top of stick s: {position.x, position.y + height, position.z}
StickTop(s) == <<s.position[1], s.position[2] + s.height, s.position[3]>>

\* The loop of updateLightning over the consecutive stick pairs, from pair i on
RECURSIVE BoltLoop(_, _, _, _)
BoltLoop(g, stks, i, tape) ==
    IF i > Len(stks) - 1 THEN g
    ELSE BoltLoop(Then(g, generateLightning(StickTop(stks[i]), StickTop(stks[i + 1]),
                                            maxDepth, displacement, tape, g.k)),
                  stks, i + 1, tape)

\* Faulty variant of updateLightning: lightningVertices is not cleared first
updateLightningNoClear(stks, tape, k) ==
    IF Len(stks) < 2
    THEN [NoVertices(k) EXCEPT !.v = lightningVertices, !.kinds = vertexKinds]
             @@ [uploaded |-> FALSE]
    ELSE BoltLoop([NoVertices(k) EXCEPT !.v = lightningVertices, !.kinds = vertexKinds],
                  stks, 1, tape) @@ [uploaded |-> TRUE]

\* updateLightning(): the buffer when it returns; uploaded tells whether
\* glBufferData ran
updateLightning(stks, tape, k) ==
    IF Len(stks) < 2
    THEN [NoVertices(k) EXCEPT !.v = lightningVertices, !.kinds = vertexKinds]
             @@ [uploaded |-> FALSE]
    ELSE BoltLoop(NoVertices(k), stks, 1, tape) @@ [uploaded |-> TRUE]

----------------------------------------------------------------------------
(* Particles: emitParticlesAlongLightning, updateParticles *)

\* The value read at 0-based index i of the vertex buffer; past its end the read
\* is out of bounds and yields no vertex coordinate
OutOfBounds == [c |-> 0, ax |-> -1, steps |-> <<>>]
At(verts, i) == IF i + 1 <= Len(verts) THEN verts[i + 1] ELSE OutOfBounds

\* Faulty variant of NewParticle: the position is read from the next triple
NewParticleAtNext(verts, i, tape, k) ==
    LET maxLife == (particleLifetime * (RandMax + 2 * Rand(tape, k + 4))) \div (2 * RandMax)
    IN  [position |-> [p0 |-> <<At(verts, i + 3), At(verts, i + 4), At(verts, i + 5)>>,
                       travel |-> 0],
         velocity |-> <<Rand(tape, k), Rand(tape, k + 1), Rand(tape, k + 2)>>,
         color |-> [base |-> lightningColor,
                    num |-> 85 * RandMax + 15 * Rand(tape, k + 3),
                    den |-> 100 * RandMax],
         size |-> [assigned |-> FALSE, shrunk |-> 0],
         maxLife |-> maxLife,
         life |-> maxLife,
         age |-> 0]

\* The particle built for the vertex at index i with the five draws after the
\* skip test: angle, speed, velocity.z, colour variation, maxLife.
\* velocity is kept as its three draws; position as the spawn point and the time
\* integrated so far; color as base * num / den; size is never assigned.
\* maxLife = particleLifetime * (0.5f + draw / RAND_MAX): with the draws 0, 1/2 and 1
\* the factor is 0.5, 1 or 1.5 and the product is exact.
NewParticle(verts, i, tape, k) ==
    LET maxLife == (particleLifetime * (RandMax + 2 * Rand(tape, k + 4))) \div (2 * RandMax)
    IN  [position |-> [p0 |-> <<At(verts, i), At(verts, i + 1), At(verts, i + 2)>>,
                       travel |-> 0],
         velocity |-> <<Rand(tape, k), Rand(tape, k + 1), Rand(tape, k + 2)>>,
         color |-> [base |-> lightningColor,
                    num |-> 85 * RandMax + 15 * Rand(tape, k + 3),
                    den |-> 100 * RandMax],
         size |-> [assigned |-> FALSE, shrunk |-> 0],
         maxLife |-> maxLife,
         life |-> maxLife,
         age |-> 0]

\* One pass of the loop body of emitParticlesAlongLightning; e = [i, ps, k]
EmitBody(e, verts, tape) ==
    IF e.i >= Len(verts) THEN e
    ELSE IF Rand(tape, e.k) % 3 # 0
         THEN [e EXCEPT !.i = @ + 3, !.k = @ + 1]
         ELSE [i |-> e.i + 3,
               ps |-> Append(e.ps, NewParticle(verts, e.i, tape, e.k + 1)),
               k |-> e.k + 6]

\* The next n passes of the loop of emitParticlesAlongLightning, taken as the
\* first half of them and then the rest
RECURSIVE EmitLoop(_, _, _, _)
EmitLoop(e, verts, tape, n) ==
    IF n = 0 \/ e.i >= Len(verts) THEN e
    ELSE IF n = 1 THEN EmitBody(e, verts, tape)
    ELSE LET half == EmitLoop(e, verts, tape, n \div 2)
         IN  IF half.i >= Len(verts) THEN half
             ELSE EmitLoop(half, verts, tape, n - n \div 2)

\* for (i = 0; i < lightningVertices.size(); i += 3): one pass per started triple
emitParticlesAlongLightning(ps, verts, tape, k) ==
    EmitLoop([i |-> 0, ps |-> ps, k |-> k], verts, tape, (Len(verts) + 2) \div 3)

\* particles.erase(it)
Erase(ps, i) == SubSeq(ps, 1, i - 1) \o SubSeq(ps, i + 1, Len(ps))

\* Faulty variant of Integrate: the colour is not faded
IntegrateKeepColor(p, dt) ==
    [p EXCEPT !.position.travel = @ + dt,
              !.size.shrunk = @ + dt]

\* The else branch of updateParticles for one particle whose life is already decremented
Integrate(p, dt) ==
    [p EXCEPT !.position.travel = @ + dt,
              !.size.shrunk = @ + dt,
              !.color = [base |-> lightningColor, num |-> p.life, den |-> p.maxLife]]

\* Faulty variant of Dead: a particle whose life is exactly 0 is kept
DeadStrict(p) == p.life < 0

\* if (it->life <= 0.0f), read after the decrement
Dead(p) == p.life <= 0

\* Faulty variant of UpdateLoop: the iterator is advanced after an erase as well
RECURSIVE UpdateLoopSkipping(_, _, _)
UpdateLoopSkipping(ps, i, dt) ==
    IF i > Len(ps) THEN ps
    ELSE LET p == [ps[i] EXCEPT !.life = @ - dt, !.age = @ + dt]
         IN  IF Dead(p) THEN UpdateLoopSkipping(Erase(ps, i), i + 1, dt)
             ELSE UpdateLoopSkipping([ps EXCEPT ![i] = Integrate(p, dt)], i + 1, dt)

\* The loop of updateParticles with the iterator at index i
RECURSIVE UpdateLoop(_, _, _)
UpdateLoop(ps, i, dt) ==
    IF i > Len(ps) THEN ps
    ELSE LET p == [ps[i] EXCEPT !.life = @ - dt, !.age = @ + dt]
         IN  IF Dead(p) THEN UpdateLoop(Erase(ps, i), i, dt)
             ELSE UpdateLoop([ps EXCEPT ![i] = Integrate(p, dt)], i + 1, dt)

updateParticles(ps, dt) == UpdateLoop(ps, 1, dt)

----------------------------------------------------------------------------
(* The values the inputs are drawn from *)

\* Slider "Max Depth" (1 .. 10): the depths 1 .. DepthBound
MaxDepths == 1..DepthBound
\* Slider "Displacement" (0.0 .. 5.0): 0.0 and 0.5
Displacements == {0, Unit}
\* ColorEdit3 "Color"
Colors == {<<1, 1, 1>>, <<1, 0, 0>>}
\* Slider "Branch Frequncy" (0.0 .. 1.0): 0.0, 0.25, 1.0
BranchChances == {0, 1, 4}
\* Slider "Branch Length" (0.0 .. 0.15), in hundredths: 0.0 and 0.1
SegmentLengths == {0, 10}
\* Slider "Emission Rate" (0.01 .. 0.2 s), in 1/320 s: 0.05 s and 0.0625 s
EmissionRates == {16, 20}
\* Slider "Particle Lifetime" (0.1 .. 2.0 s), in 1/64 s: 0.125 s and 1.0 s
Lifetimes == {8, 64}
\* Frame times, in 1/64 s: 0.03125 s and a stall of 1 s
DeltaTimes == {2, 64}
\* Stick sliders: height (0.5 .. 3.0), x and z (-4.5 .. 4.5)
StickHeights == {3 * Unit, 4 * Unit}
StickXs == {-3 * Unit, 0, 3 * Unit}
StickZs == {0, 2 * Unit}

\* setupSticks(): source and destination stick
SourceStick == [position |-> <<-3 * Unit, -2 * Unit, 0>>, height |-> 4 * Unit]
DestStick == [position |-> <<3 * Unit, -2 * Unit, 0>>, height |-> 3 * Unit]
\* addStick(): the stick appended
NewStick == [position |-> <<0, -2 * Unit, 0>>, height |-> 4 * Unit]

NoCall == [fn |-> "none"]

----------------------------------------------------------------------------
(* main(): construction, then the frame loop *)

\* The globals as initialised, after setupSticks() and initParticleSystem()
Init ==
    /\ pc = "setup"
    /\ frameLog = <<>>
    /\ sticks = <<SourceStick, DestStick>>
    /\ maxDepth = maxDepthInit
    /\ displacement = Unit
    /\ lightningColor = <<1, 1, 1>>
    /\ branchChance = branchChanceInit
    /\ lsystemIterations = lsystemIterationsInit
    /\ segmentLength = segmentLengthInit
    /\ particleEmissionRate = particleEmissionRateInit
    /\ particleLifetime = particleLifetimeInit
    /\ isAutoRegenerating = FALSE
    /\ lightningVertices = <<>>
    /\ vertexKinds = <<>>
    /\ vbo = <<>>
    /\ particles = <<>>
    /\ particleTimer = 0
    /\ deltaTime = 0
    /\ frame = 0
    /\ uiEvents = 0
    /\ call = NoCall

config == <<maxDepth, displacement, lightningColor, branchChance, lsystemIterations,
            segmentLength, particleEmissionRate, particleLifetime>>

\* The effect of one updateLightning() on the buffer and the GPU copy
Regenerated(g) ==
    /\ lightningVertices' = g.v
    /\ vertexKinds' = g.kinds
    /\ vbo' = IF g.uploaded THEN g.v ELSE vbo

\* The effect of one emitParticlesAlongLightning() that returned e
Emitted(e) ==
    /\ Len(e.ps) <= MaxParticles
    /\ particles' = e.ps

\* updateLightning(); emitParticlesAlongLightning();
RegeneratedAndEmitted(g, tape2) ==
    /\ Regenerated(g)
    /\ Emitted(emitParticlesAlongLightning(particles, g.v, tape2, 0))

\* main(): updateLightning(); emitParticlesAlongLightning(); before the loop
Startup ==
    /\ pc = "setup"
    /\ \E tape \in FrameTapes, tape2 \in FrameTapes :
          RegeneratedAndEmitted(updateLightning(sticks, tape, 0), tape2)
    /\ frameLog' = <<"updateLightning", "emitParticlesAlongLightning">>
    /\ pc' = "update"
    /\ UNCHANGED <<sticks, config, isAutoRegenerating, particleTimer, deltaTime, frame, uiEvents, call>>

\* processInput(): the Escape key closes the window and the loop ends
CloseWindow ==
    /\ pc = "update"
    /\ pc' = "exit"
    /\ UNCHANGED <<frameLog, sticks, config, isAutoRegenerating, lightningVertices,
                   vertexKinds, vbo, particles, particleTimer, deltaTime, frame, uiEvents, call>>

\* Faulty variant of FrameUpdateParticles: updateParticles is skipped when no
\* particle is alive
FrameUpdateParticlesSkipEmpty ==
    /\ pc = "update"
    /\ frame < MaxFrames
    /\ frame' = frame + 1
    /\ \E dt \in DeltaTimes :
          /\ deltaTime' = dt
          /\ particles' = updateParticles(particles, dt)
    /\ frameLog' = IF particles = <<>> THEN <<>> ELSE <<"updateParticles">>
    /\ pc' = "timer"
    /\ UNCHANGED <<sticks, config, isAutoRegenerating, lightningVertices,
                   vertexKinds, vbo, particleTimer, uiEvents, call>>

\* Start of a frame: deltaTime, then updateParticles(deltaTime)
FrameUpdateParticles ==
    /\ pc = "update"
    /\ frame < MaxFrames
    /\ frame' = frame + 1
    /\ \E dt \in DeltaTimes :
          /\ deltaTime' = dt
          /\ particles' = updateParticles(particles, dt)
    /\ frameLog' = <<"updateParticles">>
    /\ pc' = "timer"
    /\ UNCHANGED <<sticks, config, isAutoRegenerating, lightningVertices,
                   vertexKinds, vbo, particleTimer, uiEvents, call>>

\* Faulty variant of TimerElapsed: the timer fires already at the rate
TimerElapsedAtLeast(t) == 5 * t >= particleEmissionRate

\* if (particleTimer > particleEmissionRate), t in 1/64 s against the rate in 1/320 s
TimerElapsed(t) == 5 * t > particleEmissionRate

\* particleTimer += deltaTime; if (particleTimer > particleEmissionRate) { emit; reset }
FrameEmissionTimer ==
    /\ pc = "timer"
    /\ LET t == particleTimer + deltaTime
       IN  \/ /\ TimerElapsed(t)
              /\ \E tape \in FrameTapes :
                    Emitted(emitParticlesAlongLightning(particles, lightningVertices, tape, 0))
              /\ particleTimer' = 0
              /\ frameLog' = frameLog \o <<"particleTimer", "emitParticlesAlongLightning">>
           \/ /\ ~TimerElapsed(t)
              /\ particleTimer' = t
              /\ frameLog' = Append(frameLog, "particleTimer")
              /\ UNCHANGED particles
    /\ deltaTime' = 0          \* the frame does not read deltaTime again
    /\ pc' = "regen"
    /\ UNCHANGED <<sticks, config, isAutoRegenerating, lightningVertices,
                   vertexKinds, vbo, frame, uiEvents, call>>

\* if (isAutoRegenerating) updateLightning();
FrameAutoRegenerate ==
    /\ pc = "regen"
    /\ \/ /\ isAutoRegenerating
          /\ \E tape \in FrameTapes : Regenerated(updateLightning(sticks, tape, 0))
          /\ frameLog' = Append(frameLog, "updateLightning")
       \/ /\ ~isAutoRegenerating
          /\ UNCHANGED <<lightningVertices, vertexKinds, vbo, frameLog>>
    /\ pc' = "render"
    /\ UNCHANGED <<sticks, config, isAutoRegenerating, particles, particleTimer,
                   deltaTime, frame, uiEvents, call>>

\* renderGroundPlane, renderSticks, renderLightning, renderParticles: they read only
FrameRender ==
    /\ pc = "render"
    /\ frameLog' = Append(frameLog, "render")
    /\ pc' = "ui"
    /\ UNCHANGED <<sticks, config, isAutoRegenerating, lightningVertices,
                   vertexKinds, vbo, particles, particleTimer, deltaTime, frame, uiEvents, call>>

----------------------------------------------------------------------------
(* buildUI(): one widget is operated per frame, or none *)

\* What every pass through buildUI() does besides the widget operated
UIDone(extra) ==
    /\ pc = "ui"
    /\ frameLog' = Append(frameLog, "buildUI") \o extra
    /\ pc' = "update"
    /\ UNCHANGED <<particleTimer, deltaTime, frame, call>>

\* A slider or the button Regenerate is operated
Operated ==
    /\ uiEvents < MaxUIEvents
    /\ uiEvents' = uiEvents + 1

\* The button Play/Stop is pressed: one press more than the widgets operated is
\* followed, so that a press of Stop can come after a press of Play
Pressed ==
    /\ uiEvents <= MaxUIEvents
    /\ uiEvents' = uiEvents + 1

buffers == <<lightningVertices, vertexKinds, vbo>>

UIIdle ==
    /\ UIDone(<<>>)
    /\ UNCHANGED <<uiEvents, sticks, config, isAutoRegenerating, buffers, particles>>

\* Faulty variant of UIMaxDepth: the slider starts at 0
UIMaxDepthFromZero ==
    /\ UIDone(<<>>)
    /\ Operated
    /\ \E v \in (0..DepthBound) \ {maxDepth} : maxDepth' = v
    /\ UNCHANGED <<sticks, displacement, lightningColor, branchChance, lsystemIterations,
                   segmentLength, particleEmissionRate, particleLifetime,
                   isAutoRegenerating, buffers, particles>>

\* SliderInt("Max Depth", &maxDepth, 1, 10)
UIMaxDepth ==
    /\ UIDone(<<>>)
    /\ Operated
    /\ \E v \in MaxDepths \ {maxDepth} : maxDepth' = v
    /\ UNCHANGED <<sticks, displacement, lightningColor, branchChance, lsystemIterations,
                   segmentLength, particleEmissionRate, particleLifetime,
                   isAutoRegenerating, buffers, particles>>

UIDisplacement ==
    /\ UIDone(<<>>)
    /\ Operated
    /\ \E v \in Displacements \ {displacement} : displacement' = v
    /\ UNCHANGED <<sticks, maxDepth, lightningColor, branchChance, lsystemIterations,
                   segmentLength, particleEmissionRate, particleLifetime,
                   isAutoRegenerating, buffers, particles>>

UIColor ==
    /\ UIDone(<<>>)
    /\ Operated
    /\ \E v \in Colors \ {lightningColor} : lightningColor' = v
    /\ UNCHANGED <<sticks, maxDepth, displacement, branchChance, lsystemIterations,
                   segmentLength, particleEmissionRate, particleLifetime,
                   isAutoRegenerating, buffers, particles>>

UISegmentLength ==
    /\ UIDone(<<>>)
    /\ Operated
    /\ \E v \in SegmentLengths \ {segmentLength} : segmentLength' = v
    /\ UNCHANGED <<sticks, maxDepth, displacement, lightningColor, branchChance,
                   lsystemIterations, particleEmissionRate, particleLifetime,
                   isAutoRegenerating, buffers, particles>>

UIBranchChance ==
    /\ UIDone(<<>>)
    /\ Operated
    /\ \E v \in BranchChances \ {branchChance} : branchChance' = v
    /\ UNCHANGED <<sticks, maxDepth, displacement, lightningColor, lsystemIterations,
                   segmentLength, particleEmissionRate, particleLifetime,
                   isAutoRegenerating, buffers, particles>>

UIEmissionRate ==
    /\ UIDone(<<>>)
    /\ Operated
    /\ \E v \in EmissionRates \ {particleEmissionRate} : particleEmissionRate' = v
    /\ UNCHANGED <<sticks, maxDepth, displacement, lightningColor, branchChance,
                   lsystemIterations, segmentLength, particleLifetime,
                   isAutoRegenerating, buffers, particles>>

UILifetime ==
    /\ UIDone(<<>>)
    /\ Operated
    /\ \E v \in Lifetimes \ {particleLifetime} : particleLifetime' = v
    /\ UNCHANGED <<sticks, maxDepth, displacement, lightningColor, branchChance,
                   lsystemIterations, segmentLength, particleEmissionRate,
                   isAutoRegenerating, buffers, particles>>

\* addStickControls(): a slider of stick i changed, then updateLightning()
UIStickSlider ==
    /\ UIDone(<<"updateLightning">>)
    /\ Operated
    /\ \E i \in 1..Len(sticks) :
          \E s \in {[sticks[i] EXCEPT !.height = h] : h \in StickHeights}
                   \cup {[sticks[i] EXCEPT !.position[1] = x] : x \in StickXs}
                   \cup {[sticks[i] EXCEPT !.position[3] = z] : z \in StickZs} :
             /\ s # sticks[i]
             /\ sticks' = [sticks EXCEPT ![i] = s]
             /\ \E tape \in FrameTapes : Regenerated(updateLightning(sticks', tape, 0))
    /\ UNCHANGED <<config, isAutoRegenerating, particles>>

\* Faulty variant of UIPlayStop: the button starts the auto-regeneration and never
\* stops it
UIPlayStopSet ==
    /\ UIDone(<<>>)
    /\ Pressed
    /\ isAutoRegenerating' = TRUE
    /\ UNCHANGED <<sticks, config, buffers, particles>>

\* Button "Play" / "Stop": isAutoRegenerating = !isAutoRegenerating
UIPlayStop ==
    /\ UIDone(<<>>)
    /\ Pressed
    /\ isAutoRegenerating' = ~isAutoRegenerating
    /\ UNCHANGED <<sticks, config, buffers, particles>>

\* The draws of the emission behind the Regenerate button: the tapes of a frame,
\* and one that skips the first triple, spawns at the second and skips the others
ButtonTapes == FrameTapes \cup {<<1, 0, 1>>}

\* Faulty variant of UIRegenerate: the particles are emitted from the buffer as it
\* was before the regeneration
UIRegenerateStale ==
    /\ UIDone(<<"updateLightning", "emitParticlesAlongLightning">>)
    /\ Operated
    /\ \E tape \in FrameTapes, tape2 \in ButtonTapes :
          /\ Regenerated(updateLightning(sticks, tape, 0))
          /\ Emitted(emitParticlesAlongLightning(particles, lightningVertices, tape2, 0))
    /\ UNCHANGED <<sticks, config, isAutoRegenerating>>

\* Button "Regenerate": updateLightning(); emitParticlesAlongLightning();
UIRegenerate ==
    /\ UIDone(<<"updateLightning", "emitParticlesAlongLightning">>)
    /\ Operated
    /\ \E tape \in FrameTapes, tape2 \in ButtonTapes :
          RegeneratedAndEmitted(updateLightning(sticks, tape, 0), tape2)
    /\ UNCHANGED <<sticks, config, isAutoRegenerating>>

\* Faulty variant of UIAddStick: the bolt is regenerated at once
UIAddStickRegenerating ==
    /\ UIDone(<<>>)
    /\ Len(sticks) < MaxSticks
    /\ sticks' = Append(sticks, NewStick)
    /\ \E tape \in FrameTapes : Regenerated(updateLightning(sticks', tape, 0))
    /\ UNCHANGED <<uiEvents, config, isAutoRegenerating, particles>>

\* Button "Add Stick": addStick()
UIAddStick ==
    /\ UIDone(<<>>)
    /\ Len(sticks) < MaxSticks
    /\ sticks' = Append(sticks, NewStick)
    /\ UNCHANGED <<uiEvents, config, isAutoRegenerating, buffers, particles>>

FrameBuildUI ==
    \/ UIIdle \/ UIMaxDepth \/ UIDisplacement \/ UIColor \/ UISegmentLength
    \/ UIBranchChance \/ UIEmissionRate \/ UILifetime \/ UIStickSlider
    \/ UIPlayStop \/ UIRegenerate \/ UIAddStick

Next ==
    \/ Startup
    \/ CloseWindow
    \/ FrameUpdateParticles
    \/ FrameEmissionTimer
    \/ FrameAutoRegenerate
    \/ FrameRender
    \/ FrameBuildUI

Spec == Init /\ [][Next]_vars

----------------------------------------------------------------------------
(* Direct calls of the generator: generateLightning and updateLightning are  *)
(* called once, on globals drawn from the ranges of their sliders            *)

\* The globals that no slider has moved and the empty buffers
Untouched ==
    /\ frameLog = <<>>
    /\ lightningColor = <<1, 1, 1>>
    /\ lsystemIterations = lsystemIterationsInit
    /\ particleEmissionRate = particleEmissionRateInit
    /\ isAutoRegenerating = FALSE
    /\ particles = <<>>
    /\ particleTimer = 0
    /\ deltaTime = 0
    /\ frame = 0
    /\ uiEvents = 0
    /\ call = NoCall

\* The slider "Max Depth" stands at DepthBound, the sticks as set up or with one added
InitGen ==
    /\ pc = "call"
    /\ Untouched
    /\ sticks \in {<<SourceStick, DestStick>>, <<SourceStick, DestStick, NewStick>>}
    /\ maxDepth = DepthBound
    /\ displacement = Unit
    /\ branchChance \in BranchChances
    /\ segmentLength \in SegmentLengths
    /\ particleLifetime = particleLifetimeInit
    /\ lightningVertices = <<>>
    /\ vertexKinds = <<>>
    /\ vbo = <<>>

\* The anchors of the direct call: the tops of the last two sticks
CallStart == StickTop(sticks[Len(sticks) - 1])
CallEnd == StickTop(sticks[Len(sticks)])

\* generateLightning(vertices, CallStart, CallEnd, depth, displacement) on an empty vector
CallGenerateLightning ==
    /\ pc = "call"
    /\ \E depth \in 0..DepthBound, tape \in Tapes :
          call' = [fn |-> "generateLightning", depth |-> depth, tape |-> tape,
                   out |-> generateLightning(CallStart, CallEnd, depth, displacement,
                                             tape, 0)]
    /\ pc' = "done"
    /\ UNCHANGED <<frameLog, sticks, config, isAutoRegenerating, buffers, particles,
                   particleTimer, deltaTime, frame, uiEvents>>

\* updateLightning()
CallUpdateLightning ==
    /\ pc = "call"
    /\ \E tape \in Tapes :
          LET g == updateLightning(sticks, tape, 0)
          IN  /\ Regenerated(g)
              /\ call' = [fn |-> "updateLightning", tape |-> tape,
                          leaves |-> g.leaves, branches |-> g.branches]
    /\ pc' = "done"
    /\ UNCHANGED <<frameLog, sticks, config, isAutoRegenerating, particles,
                   particleTimer, deltaTime, frame, uiEvents>>

NextGen == CallGenerateLightning \/ CallUpdateLightning

SpecGen == InitGen /\ [][NextGen]_vars

\* Two sticks as the sliders X and Z of the second stick can place them: apart
\* along x (as set up), one above the other (tops apart along y only), and apart
\* mostly along z
StickLayouts ==
    {<<SourceStick, DestStick>>,
     <<SourceStick, [DestStick EXCEPT !.position[1] = SourceStick.position[1]]>>,
     <<SourceStick, [DestStick EXCEPT !.position[1] = SourceStick.position[1],
                                      !.position[3] = 2 * Unit]>>}

InitAnchors ==
    /\ pc = "call"
    /\ Untouched
    /\ sticks \in StickLayouts
    /\ maxDepth = maxDepthInit
    /\ displacement \in Displacements
    /\ branchChance = branchChanceInit
    /\ segmentLength = segmentLengthInit
    /\ particleLifetime = particleLifetimeInit
    /\ lightningVertices = <<>>
    /\ vertexKinds = <<>>
    /\ vbo = <<>>

\* Direct calls of generateLightning between the tops of the two sticks
SpecAnchors == InitAnchors /\ [][CallGenerateLightning]_vars

----------------------------------------------------------------------------
(* Direct calls of the L-system: generateLSystem, then interpretLSystem of   *)
(* the string it returned                                                     *)

\* The axioms generateLightning passes, and the plain "F"
Axioms == {PlusAxiom, MinusAxiom, <<"F">>}

InitLSys ==
    /\ pc = "call"
    /\ Untouched
    /\ sticks = <<SourceStick, DestStick>>
    /\ maxDepth = maxDepthInit
    /\ displacement = Unit
    /\ branchChance = branchChanceInit
    /\ segmentLength \in SegmentLengths
    /\ particleLifetime = particleLifetimeInit
    /\ lightningVertices = <<>>
    /\ vertexKinds = <<>>
    /\ vbo = <<>>

\* generateLSystem(axiom, iterations)
CallGenerateLSystem ==
    /\ pc = "call"
    /\ \E axiom \in Axioms, iterations \in 0..IterBound, tape \in Tapes :
          LET ls == generateLSystem(axiom, iterations, tape, 0)
          IN  call' = [fn |-> "generateLSystem", axiom |-> axiom,
                       iterations |-> iterations, tape |-> tape, s |-> ls.s, k |-> ls.k]
    /\ pc' = "generated"
    /\ UNCHANGED <<frameLog, sticks, config, isAutoRegenerating, buffers, particles,
                   particleTimer, deltaTime, frame, uiEvents>>

\* interpretLSystem(s, CallStart, CallEnd - CallStart, segmentLength, angleVariance,
\* vertices) on an empty vector
CallInterpretLSystem ==
    /\ pc = "generated"
    /\ call' = [fn |-> "interpretLSystem", axiom |-> call.axiom,
                iterations |-> call.iterations, tape |-> call.tape, s |-> call.s,
                k |-> call.k,
                out |-> interpretLSystem(call.s, CallStart, VSub(CallEnd, CallStart),
                                         segmentLength, angleVariance, call.tape, call.k)]
    /\ pc' = "done"
    /\ UNCHANGED <<frameLog, sticks, config, isAutoRegenerating, buffers, particles,
                   particleTimer, deltaTime, frame, uiEvents>>

NextLSys == CallGenerateLSystem \/ CallInterpretLSystem

SpecLSys == InitLSys /\ [][NextLSys]_vars

----------------------------------------------------------------------------
(* Direct calls of the particle system on a generated bolt:                  *)
(* emitParticlesAlongLightning and updateParticles in any order              *)

\* Frame times of the direct calls, in 1/64 s: 0.0625 s, 0.5 s, 1 s
CallDeltaTimes == {4, 32, 64}

InitParticles ==
    /\ pc = "call"
    /\ Untouched
    /\ sticks = <<SourceStick, DestStick>>
    /\ maxDepth = 1
    /\ displacement = Unit
    /\ branchChance = branchChanceInit
    /\ segmentLength = segmentLengthInit
    /\ particleLifetime \in Lifetimes
    /\ \E tape \in FrameTapes :
          LET g == updateLightning(sticks, tape, 0)
          IN  /\ lightningVertices = g.v
              /\ vertexKinds = g.kinds
              /\ vbo = g.v

\* emitParticlesAlongLightning()
CallEmitParticles ==
    /\ pc = "call"
    /\ frame < MaxCalls
    /\ frame' = frame + 1
    /\ \E tape \in Tapes :
          Emitted(emitParticlesAlongLightning(particles, lightningVertices, tape, 0))
    /\ call' = [fn |-> "emitParticlesAlongLightning", dt |-> 0, before |-> particles]
    /\ UNCHANGED <<pc, frameLog, sticks, config, isAutoRegenerating, buffers,
                   particleTimer, deltaTime, uiEvents>>

\* updateParticles(dt)
CallUpdateParticles ==
    /\ pc = "call"
    /\ frame < MaxCalls
    /\ frame' = frame + 1
    /\ \E dt \in CallDeltaTimes :
          /\ particles' = updateParticles(particles, dt)
          /\ call' = [fn |-> "updateParticles", dt |-> dt, before |-> particles]
    /\ UNCHANGED <<pc, frameLog, sticks, config, isAutoRegenerating, buffers,
                   particleTimer, deltaTime, uiEvents>>

NextParticles == CallEmitParticles \/ CallUpdateParticles

SpecParticles == InitParticles /\ [][NextParticles]_vars

----------------------------------------------------------------------------
(* Direct calls of interpretLSystem on any string over the alphabet, balanced *)
(* or not                                                                      *)

Alphabet == {"F", "+", "-", "[", "]"}
\* The symbols of the strings interpreted directly: the alphabet and a character
\* that the switch has no case for
Symbols == Alphabet \cup {"X"}
Strings == UNION {[1..n -> Symbols] : n \in 0..StrLen}

InitTurtle ==
    /\ pc = "call"
    /\ Untouched
    /\ sticks = <<SourceStick, DestStick>>
    /\ maxDepth = maxDepthInit
    /\ displacement = Unit
    /\ branchChance = branchChanceInit
    /\ segmentLength = segmentLengthInit
    /\ particleLifetime = particleLifetimeInit
    /\ lightningVertices = <<>>
    /\ vertexKinds = <<>>
    /\ vbo = <<>>

\* interpretLSystem(s, CallStart, CallEnd - CallStart, segmentLength, angleVariance,
\* vertices) on an empty vector
CallInterpretString ==
    /\ pc = "call"
    /\ \E str \in Strings, tape \in FrameTapes :
          call' = [fn |-> "interpretLSystem", tape |-> tape, s |-> str, k |-> 0,
                   out |-> interpretLSystem(str, CallStart, VSub(CallEnd, CallStart),
                                            segmentLength, angleVariance, tape, 0)]
    /\ pc' = "done"
    /\ UNCHANGED <<frameLog, sticks, config, isAutoRegenerating, buffers, particles,
                   particleTimer, deltaTime, frame, uiEvents>>

SpecTurtle == InitTurtle /\ [][CallInterpretString]_vars

----------------------------------------------------------------------------
(* Properties *)

\* Number of floats of the kind in a stream
CountKind(kinds, kind) == Cardinality({i \in DOMAIN kinds : kinds[i] = kind})

\* The call made from the stored arguments with another tape
Recall(tape) ==
    generateLightning(CallStart, CallEnd, call.depth, displacement, tape, 0)

\* C1: a call of generateLightning with depth d reaches the base case exactly 2^d
\* times and stores exactly 2^(d+1) main-bolt vertices (three floats each),
\* whatever the draws
C1_LeafCount ==
    call.fn = "generateLightning" =>
        /\ call.out.leaves = Pow2(call.depth)
        /\ CountKind(call.out.kinds, "main") = 3 * Pow2(call.depth + 1)

\* A call at the deepest depth that also grew branches
C1_Witness ==
    /\ call.fn = "generateLightning"
    /\ call.depth = DepthBound
    /\ call.out.branches > 0

\* C2: with branchChance = 0 neither a call of generateLightning nor a call of
\* updateLightning stores a branch vertex
C2_NoBranchAtZero ==
    /\ (call.fn = "generateLightning" /\ branchChance = 0) =>
          CountKind(call.out.kinds, "branch") = 0
    /\ (call.fn = "updateLightning" /\ branchChance = 0) =>
          CountKind(vertexKinds, "branch") = 0

\* C3 as stated: whenever the accumulated time reaches particleEmissionRate (>=) the
\* timer step calls emitParticlesAlongLightning once and resets the timer to 0
C3_FiresAtRate ==
    [][(pc = "timer" /\ 5 * (particleTimer + deltaTime) >= particleEmissionRate) =>
          /\ particleTimer' = 0
          /\ frameLog' = frameLog \o <<"particleTimer", "emitParticlesAlongLightning">>]_vars

\* C3, amended: the timer step emits once and resets the timer to 0 exactly when the
\* accumulated time exceeds particleEmissionRate; at the rate exactly, and below it,
\* it emits nothing and keeps the accumulated time
C3_FiresAboveRate ==
    [][pc = "timer" =>
          IF 5 * (particleTimer + deltaTime) > particleEmissionRate
          THEN /\ particleTimer' = 0
               /\ frameLog' = frameLog \o <<"particleTimer", "emitParticlesAlongLightning">>
          ELSE /\ particleTimer' = particleTimer + deltaTime
               /\ particles' = particles
               /\ frameLog' = Append(frameLog, "particleTimer")]_vars

\* The timer step has run with the accumulated time exactly at the rate
C3_Witness ==
    /\ pc = "regen"
    /\ 5 * particleTimer = particleEmissionRate
    /\ frameLog = <<"updateParticles", "particleTimer">>

\* C4 as stated: the main-bolt segments are all stored before any branch is grown,
\* so no main-bolt float follows a branch float in the buffer
C4_PathBeforeBranches ==
    \A i \in DOMAIN vertexKinds : \A j \in DOMAIN vertexKinds :
        (i < j /\ vertexKinds[i] = "branch") => vertexKinds[j] = "branch"

\* C4, amended: the trial is made in the base case, per leaf; a branch is stored
\* directly behind the six floats of its leaf and starts at that leaf's start point
C4_BranchBehindItsLeaf ==
    /\ Len(vertexKinds) = Len(lightningVertices)
    /\ \A i \in DOMAIN vertexKinds :
          (vertexKinds[i] = "branch" /\ (i = 1 \/ vertexKinds[i - 1] = "main")) =>
              /\ i > 6
              /\ \A a \in 1..6 : vertexKinds[i - a] = "main"
              /\ \A a \in 0..2 : lightningVertices[i + a] = lightningVertices[i - 6 + a]

\* A bolt whose first leaf grew a branch and is followed by another leaf
C4_Witness ==
    \E i \in DOMAIN vertexKinds : \E j \in DOMAIN vertexKinds :
        i < j /\ vertexKinds[i] = "branch" /\ vertexKinds[j] = "main"

\* C5 as stated: the number of floats one call stores depends on depth alone, so the
\* same call with any other draws stores as many
C5_DepthAlone ==
    call.fn = "generateLightning" =>
        \A tape \in Tapes : Len(Recall(tape).v) = Len(call.out.v)

\* C5, amended: one call stores 2^(d+1) main-bolt vertices and 2^(lsystemIterations+1)
\* vertices for each leaf whose trial grew a branch (three floats per vertex)
C5_DepthAndBranches ==
    call.fn = "generateLightning" =>
        Len(call.out.v) = 3 * (Pow2(call.depth + 1)
                               + call.out.branches * Pow2(lsystemIterations + 1))

\* A call in which some leaves grew a branch and some did not
C5_Witness ==
    /\ call.fn = "generateLightning"
    /\ call.out.branches > 0
    /\ call.out.branches < call.out.leaves

\* C6: the buffer and its GPU copy always hold whole segments: the number of floats
\* is a multiple of 3 and of 6 whenever it is uploaded, drawn or read by the emitter
C6_WholeSegments ==
    /\ Len(lightningVertices) % 3 = 0
    /\ Len(lightningVertices) % 6 = 0
    /\ Len(vbo) % 6 = 0

\* The bolt with branches is drawn
C6_Witness ==
    /\ pc = "render"
    /\ CountKind(vertexKinds, "branch") > 0
    /\ vbo = lightningVertices

\* C7: a particle is spawned with life = maxLife, its life is maxLife less the frame
\* times summed since, it stays while that sum is below maxLife, and updateParticles
\* removes exactly the particles whose sum reaches maxLife
C7_LifeSpan ==
    /\ \A i \in DOMAIN particles :
          /\ particles[i].life = particles[i].maxLife - particles[i].age
          /\ particles[i].age < particles[i].maxLife
    /\ call.fn = "emitParticlesAlongLightning" =>
          /\ Len(particles) >= Len(call.before)
          /\ \A i \in DOMAIN particles :
                IF i <= Len(call.before) THEN particles[i] = call.before[i]
                ELSE particles[i].age = 0 /\ particles[i].life = particles[i].maxLife
    /\ call.fn = "updateParticles" =>
          LET kept == SelectSeq(call.before, LAMBDA p : p.age + call.dt < p.maxLife)
          IN  /\ Len(particles) = Len(kept)
              /\ \A i \in DOMAIN kept :
                    /\ particles[i].maxLife = kept[i].maxLife
                    /\ particles[i].age = kept[i].age + call.dt
                    /\ particles[i].velocity = kept[i].velocity

\* One updateParticles removed a particle and kept another
C7_Witness ==
    /\ call.fn = "updateParticles"
    /\ Len(call.before) = 2
    /\ Len(particles) = 1

\* The particle's life is strictly between 0 and maxLife
Fading(p) == 0 < p.life /\ p.life < p.maxLife

\* color = lightningColor * (life / maxLife), channel by channel
ColorFaded(p) ==
    \A ch \in 1..3 :
        p.color.base[ch] * p.color.num * p.maxLife = lightningColor[ch] * p.life * p.color.den

\* C8 as stated: at every moment a fading particle's colour is the current
\* lightningColor scaled by life / maxLife
C8_AtEveryMoment ==
    \A i \in DOMAIN particles : Fading(particles[i]) => ColorFaded(particles[i])

\* C8, amended: from updateParticles to the frame's buildUI, so at every render, a
\* fading particle's colour is the current lightningColor scaled by life / maxLife
C8_FromUpdateToBuildUI ==
    pc \in {"timer", "regen", "render", "ui"} =>
        \A i \in DOMAIN particles : Fading(particles[i]) => ColorFaded(particles[i])

\* A fading particle is rendered in a frame after the colour was edited
C8_Witness ==
    /\ pc = "render"
    /\ lightningColor # <<1, 1, 1>>
    /\ \E i \in DOMAIN particles : Fading(particles[i])

\* Position of the first x in the log, 0 if there is none
First(log, x) ==
    IF \E i \in DOMAIN log : log[i] = x
    THEN CHOOSE i \in DOMAIN log : log[i] = x /\ \A j \in 1..(i - 1) : log[j] # x
    ELSE 0

\* C9 as stated: in every frame updateParticles and the emission step run, and they
\* run after that frame's buildUI
C9_AfterBuildUI ==
    (pc = "update" /\ frame > 0) =>
        /\ First(frameLog, "buildUI") > 0
        /\ First(frameLog, "updateParticles") > First(frameLog, "buildUI")
        /\ First(frameLog, "particleTimer") > First(frameLog, "buildUI")

\* C9, amended: in every frame updateParticles and then the emission-timer step run
\* unconditionally, both before that frame's render and buildUI
C9_BeforeBuildUI ==
    (pc = "update" /\ frame > 0) =>
        /\ Len(frameLog) >= 4
        /\ frameLog[1] = "updateParticles"
        /\ frameLog[2] = "particleTimer"
        /\ First(frameLog, "render") > 2
        /\ First(frameLog, "buildUI") > First(frameLog, "render")
        /\ CountKind(frameLog, "updateParticles") = 1
        /\ CountKind(frameLog, "particleTimer") = 1

\* A frame in auto-regeneration with no particle alive has ended
C9_Witness ==
    /\ pc = "update"
    /\ frame = MaxFrames
    /\ isAutoRegenerating
    /\ particles = <<>>

\* Brackets of s: every prefix has at least as many '[' as ']', the whole as many
Opened(s, n) ==
    Cardinality({i \in 1..n : s[i] = "["}) - Cardinality({i \in 1..n : s[i] = "]"})
Balanced(s) ==
    /\ \A n \in 0..Len(s) : Opened(s, n) >= 0
    /\ Opened(s, Len(s)) = 0

\* C10: for the axioms "[+F]", "[-F]" and "F" and any number of passes the string
\* generateLSystem returns has balanced brackets, and interpretLSystem of it never
\* meets ']' with an empty stack and ends with an empty stack
C10_BalancedBrackets ==
    /\ call.fn \in {"generateLSystem", "interpretLSystem"} => Balanced(call.s)
    /\ call.fn = "interpretLSystem" =>
          /\ call.out.emptyPops = 0
          /\ call.out.endStack = 0

\* A string with nested brackets has been interpreted
C10_Witness ==
    /\ call.fn = "interpretLSystem"
    /\ call.iterations = IterBound
    /\ \E n \in 0..Len(call.s) : Opened(call.s, n) >= 2

\* The turtle of the interpreted call after the first n symbols of its string
TurtleAfter(n) ==
    interpretTurtle(SubSeq(call.s, 1, n), CallStart, VSub(CallEnd, CallStart),
                    segmentLength, angleVariance, call.tape, call.k)

\* s[j] is the ']' that closes the group opened by the '[' at s[i]
Matching(s, i, j) ==
    /\ i < j
    /\ s[i] = "["
    /\ s[j] = "]"
    /\ Opened(s, j) = Opened(s, i - 1)
    /\ \A n \in i..(j - 1) : Opened(s, n) > Opened(s, i - 1)

\* C11: in a balanced string the turtle right after the ']' closing a group has the
\* position and direction it had right before the matching '[', whatever the group
\* holds, and the vertices emitted inside the group stay in the output
C11_GroupRestoresTurtle ==
    (call.fn = "interpretLSystem" /\ Balanced(call.s)) =>
        LET turtle == [n \in 0..Len(call.s) |-> TurtleAfter(n)]
        IN  \A i, j \in 1..Len(call.s) :
                Matching(call.s, i, j) =>
                    /\ turtle[j].pos = turtle[i - 1].pos
                    /\ turtle[j].dir = turtle[i - 1].dir
                    /\ turtle[j].g.v = turtle[j - 1].g.v
                    /\ SubSeq(turtle[j].g.v, 1, Len(turtle[i - 1].g.v)) = turtle[i - 1].g.v

\* A group holding a segment, a turn and a nested group has been closed after the
\* turtle moved and turned inside it
C11_Witness ==
    /\ call.fn = "interpretLSystem"
    /\ Balanced(call.s)
    /\ \E i, j \in 1..Len(call.s) :
          /\ Matching(call.s, i, j)
          /\ \E n \in (i + 1)..(j - 1) : call.s[n] = "["
          /\ \E n \in (i + 1)..(j - 1) : call.s[n] = "F"
          /\ TurtleAfter(j - 1).pos # TurtleAfter(i - 1).pos
          /\ TurtleAfter(j - 1).dir # TurtleAfter(i - 1).dir
          /\ Len(TurtleAfter(j).g.v) > Len(TurtleAfter(i - 1).g.v)

\* s without its j-th symbol
Without(s, j) == SubSeq(s, 1, j - 1) \o SubSeq(s, j + 1, Len(s))

\* C12: a ']' met with an empty stack changes neither position, direction, stack
\* nor output, and the interpretation goes on: the outcome is that of the string
\* without this ']'
C12_EmptyPopIsNoOp ==
    call.fn = "interpretLSystem" =>
        \A j \in 1..Len(call.s) :
            (call.s[j] = "]" /\ TurtleAfter(j - 1).stack = <<>>) =>
                /\ TurtleAfter(j).pos = TurtleAfter(j - 1).pos
                /\ TurtleAfter(j).dir = TurtleAfter(j - 1).dir
                /\ TurtleAfter(j).stack = <<>>
                /\ TurtleAfter(j).g.v = TurtleAfter(j - 1).g.v
                /\ TurtleAfter(j).g.k = TurtleAfter(j - 1).g.k
                /\ LET rest == interpretLSystem(Without(call.s, j), CallStart,
                                                VSub(CallEnd, CallStart), segmentLength,
                                                angleVariance, call.tape, call.k)
                   IN  /\ call.out.v = rest.v
                       /\ call.out.kinds = rest.kinds
                       /\ call.out.k = rest.k
                       /\ call.out.endStack = rest.endStack

\* A ']' was met with an empty stack after the turtle had moved and turned, and a
\* segment was drawn after it
C12_Witness ==
    /\ call.fn = "interpretLSystem"
    /\ \E j \in 3..(Len(call.s) - 1) :
          /\ call.s[j] = "]"
          /\ TurtleAfter(j - 1).stack = <<>>
          /\ TurtleAfter(j - 1).pos # Pos(CallStart)
          /\ TurtleAfter(j - 1).dir # Dir(Normalize(VSub(CallEnd, CallStart)))
          /\ call.s[j + 1] = "F"

\* C13: generateLSystem(axiom, 0) returns the axiom unchanged and consumes no
\* random draw
C13_ZeroIterations ==
    (call.fn = "generateLSystem" /\ call.iterations = 0) =>
        /\ call.s = call.axiom
        /\ call.k = 0

\* generateLSystem has been called with 0 iterations on an axiom holding an 'F'
C13_Witness ==
    /\ call.fn = "generateLSystem"
    /\ call.iterations = 0
    /\ call.axiom = PlusAxiom

\* Number of occurrences of the symbol c in s
Count(s, c) == Cardinality({i \in 1..Len(s) : s[i] = c})

\* The string of the call one pass earlier
PreviousPass == generateLSystem(call.axiom, call.iterations - 1, call.tape, 0).s

\* C14: the string after k+1 passes is at least as long as after k passes for every
\* draw sequence, holds no symbol outside {F,+,-,[,]}, and its 'F' all come from
\* rewriting an 'F' of the previous string: two for each, the other symbols are
\* copied in their order
C14_PassGrowsString ==
    (call.fn = "generateLSystem" /\ call.iterations >= 1) =>
        /\ Len(call.s) >= Len(PreviousPass)
        /\ \A i \in 1..Len(call.s) : call.s[i] \in Alphabet
        /\ Count(call.s, "F") = 2 * Count(PreviousPass, "F")
        /\ \A c \in Alphabet \ {"F"} : Count(call.s, c) >= Count(PreviousPass, c)

\* A pass has rewritten a string in which the three rules were applied
C14_Witness ==
    /\ call.fn = "generateLSystem"
    /\ call.iterations = IterBound
    /\ Len(call.s) > Len(PreviousPass)
    /\ Count(PreviousPass, "+") >= 1
    /\ Count(PreviousPass, "-") >= 1
    /\ Count(call.s, "F") > Count(call.s, "[") + 1

\* What the step appends to the log of the frame
NewLog ==
    IF Len(frameLog') >= Len(frameLog) /\ SubSeq(frameLog', 1, Len(frameLog)) = frameLog
    THEN SubSeq(frameLog', Len(frameLog) + 1, Len(frameLog'))
    ELSE frameLog'

\* The step calls updateLightning()
Regenerates == \E i \in 1..Len(NewLog) : NewLog[i] = "updateLightning"

\* C15: every regeneration (startup, Regenerate button, auto-regenerate tick, stick
\* slider) with at least 2 sticks is a full recomputation: lightningVertices then
\* holds the main-bolt vertices of this call only, 2^(maxDepth+1) for each stick
\* pair and starting at the top of the first stick, with at most one branch per
\* leaf, and the uploaded buffer holds exactly lightningVertices
C15_FullRecomputation ==
    [][(Regenerates /\ Len(sticks') >= 2) =>
          /\ CountKind(vertexKinds', "main") = 6 * (Len(sticks') - 1) * Pow2(maxDepth')
          /\ CountKind(vertexKinds', "branch")
                <= 6 * Pow2(lsystemIterations') * (Len(sticks') - 1) * Pow2(maxDepth')
          /\ Len(lightningVertices') = Len(vertexKinds')
          /\ SubSeq(lightningVertices', 1, 3)
                = [i \in 1..3 |-> Float(StickTop(sticks'[1])[i])]
          /\ vbo' = lightningVertices']_vars

\* A stick slider has regenerated a bolt over three sticks, replacing an earlier
\* bolt
C15_Witness ==
    /\ pc = "update"
    /\ frame = MaxFrames
    /\ Len(sticks) = 3
    /\ sticks[1] # SourceStick
    /\ \E i \in 1..Len(frameLog) : frameLog[i] = "updateLightning"
    /\ CountKind(vertexKinds, "branch") > 0
    /\ vbo = lightningVertices

\* C16: while isAutoRegenerating is set the frame's auto-regeneration step calls
\* updateLightning exactly once; while it is clear that step leaves the bolt alone
\* and a frame regenerates only in buildUI on a user action; no other step of the
\* loop regenerates; the flag changes on a user action only, and a press of Play/Stop
\* (the user action that changes no stick and no parameter and calls nothing) toggles
\* it
C16_AutoRegeneration ==
    [][/\ pc = "regen" =>
            IF isAutoRegenerating
            THEN NewLog = <<"updateLightning">>
            ELSE ~Regenerates /\ UNCHANGED buffers
       /\ (pc = "ui" /\ Regenerates) => uiEvents' = uiEvents + 1
       /\ pc \notin {"setup", "regen", "ui"} => (~Regenerates /\ UNCHANGED buffers)
       /\ isAutoRegenerating' # isAutoRegenerating =>
             (pc = "ui" /\ uiEvents' = uiEvents + 1)
       /\ (pc = "ui" /\ uiEvents' = uiEvents + 1 /\ NewLog = <<"buildUI">>
              /\ UNCHANGED <<sticks, config>>) =>
             isAutoRegenerating' = ~isAutoRegenerating]_vars

\* After a press of Play the next frame has regenerated by itself, and a press of
\* Stop at the end of that frame has cleared the flag again
C16_Witness ==
    /\ pc = "update"
    /\ ~isAutoRegenerating
    /\ uiEvents = 2
    /\ frame = 2
    /\ frameLog[Len(frameLog)] = "buildUI"
    /\ frameLog[Len(frameLog) - 1] = "render"
    /\ frameLog[Len(frameLog) - 2] = "updateLightning"

\* C17: maxDepth stays within 1..10, and a regeneration started in the frame
\* returns whatever the draws: generateLightning nests at most maxDepth calls deep,
\* reaches the base case 2^maxDepth times for each stick pair, and the strings
\* rewritten and interpreted are finite, so that the buffer holds at most one
\* branch of 2^lsystemIterations segments per leaf
C17_RegenerationReturns ==
    /\ maxDepth \in 1..10
    /\ pc = "regen" =>
          \A tape \in FrameTapes :
              LET g == updateLightning(sticks, tape, 0)
              IN  /\ g.nest <= maxDepth
                  /\ g.leaves = (Len(sticks) - 1) * Pow2(maxDepth)
                  /\ g.branches <= g.leaves
                  /\ Len(g.v) <= 6 * g.leaves + 6 * Pow2(lsystemIterations) * g.branches

\* A frame is about to regenerate the bolt by itself
C17_Witness ==
    /\ pc = "regen"
    /\ isAutoRegenerating
    /\ Len(sticks) >= 2
    /\ frame = MaxFrames

\* The main-bolt floats of a buffer, in their order
MainFloats(v, kinds) ==
    LET tagged == [i \in DOMAIN v |-> <<v[i], kinds[i]>>]
        main == SelectSeq(tagged, LAMBDA p : p[2] = "main")
    IN  [i \in DOMAIN main |-> main[i][1]]

\* The three floats of the point p
Floats(p) == <<Float(p[1]), Float(p[2]), Float(p[3])>>

\* The direct call had depth 1 and displacement 0
StraightCall ==
    /\ call.fn = "generateLightning"
    /\ call.depth = 1
    /\ displacement = 0

\* The main-bolt floats m are start, a point, the same point, end, and twice that
\* point is start + end
TwoSegments(m) ==
    /\ Len(m) = 12
    /\ SubSeq(m, 1, 3) = Floats(CallStart)
    /\ SubSeq(m, 4, 6) = SubSeq(m, 7, 9)
    /\ SubSeq(m, 10, 12) = Floats(CallEnd)
    /\ \A i \in 1..3 : m[3 + i] = Float(m[3 + i].c) /\ 2 * m[3 + i].c = CallStart[i] + CallEnd[i]

\* C18 as stated: with depth 1 and displacement 0 the whole output is the two
\* segments (start, mid), (mid, end) with mid the exact average, and nothing else
C18_OnlyAnchorsAndMidpoint ==
    StraightCall =>
        /\ TwoSegments(call.out.v)
        /\ CountKind(call.out.kinds, "branch") = 0

\* C18, amended: with depth 1 and displacement 0 the main-bolt vertices of the
\* output are exactly (start, mid), (mid, end) with mid the exact average, without
\* jitter; each of the two segments may be followed by the vertices of its branch
C18_StraightMainBolt ==
    StraightCall =>
        /\ TwoSegments(MainFloats(call.out.v, call.out.kinds))
        /\ call.out.leaves = 2
        /\ CountKind(call.out.kinds, "branch")
              = 6 * Pow2(lsystemIterations) * call.out.branches

\* A straight two-segment bolt has been generated with a branch on a segment
C18_Witness ==
    /\ StraightCall
    /\ call.out.branches >= 1
    /\ CallStart[2] # CallEnd[2]

\* C19: with N >= 2 sticks updateLightning runs generateLightning once for each
\* consecutive stick pair, in stick order, into one buffer: the main-bolt vertices
\* of bolt i begin at the top of stick i (position.y + height) and end at the top of
\* stick i+1, where bolt i+1 begins
C19_BoltsChainStickTops ==
    call.fn = "updateLightning" =>
        LET m == MainFloats(lightningVertices, vertexKinds)
            per == 6 * Pow2(maxDepth)
            top(s) == <<s.position[1], s.position[2] + s.height, s.position[3]>>
        IN  /\ call.leaves = (Len(sticks) - 1) * Pow2(maxDepth)
            /\ Len(m) = (Len(sticks) - 1) * per
            /\ \A i \in 1..(Len(sticks) - 1) :
                  /\ SubSeq(m, (i - 1) * per + 1, (i - 1) * per + 3) = Floats(top(sticks[i]))
                  /\ SubSeq(m, i * per - 2, i * per) = Floats(top(sticks[i + 1]))
            /\ \A i \in 1..(Len(sticks) - 2) :
                  SubSeq(m, i * per - 2, i * per) = SubSeq(m, i * per + 1, i * per + 3)

\* updateLightning has chained two bolts over three sticks, with branches between
\* the main-bolt vertices
C19_Witness ==
    /\ call.fn = "updateLightning"
    /\ Len(sticks) = 3
    /\ call.branches >= 2
    /\ vertexKinds[7] = "branch"

\* The axis along which the anchors are farthest apart
DominantAxis ==
    CHOOSE a \in 1..3 :
        \A b \in (1..3) \ {a} : Abs(CallEnd[a] - CallStart[a]) > Abs(CallEnd[b] - CallStart[b])

\* The first midpoint of a direct call of depth >= 1: the end of its left half
FirstMid ==
    LET m == MainFloats(call.out.v, call.out.kinds)
    IN  SubSeq(m, 6 * Pow2(call.depth - 1) - 2, 6 * Pow2(call.depth - 1))

\* Twice the distance of the first midpoint from the exact average, along axis a
TwiceOff(a) == 2 * FirstMid[a].c - (CallStart[a] + CallEnd[a])

\* C20 as stated: for every pair of anchors the stick sliders can produce, the
\* coordinate of the midpoint along the bolt's dominant axis is the exact average of
\* the anchors (the two perturbed coordinates are the ones orthogonal to that axis)
C20_DominantAxisExact ==
    (call.fn = "generateLightning" /\ call.depth >= 1) => TwiceOff(DominantAxis) = 0

\* C20, amended: whatever the dominant axis of the bolt, the perturbed coordinates
\* of the midpoint are y and z, each by (draw - 0.5) * displacement of its own draw,
\* and the x coordinate is the exact average of the anchors
C20_AlwaysYAndZ ==
    (call.fn = "generateLightning" /\ call.depth >= 1) =>
        /\ TwiceOff(1) = 0
        /\ RandMax * TwiceOff(2) = (2 * call.tape[1] - RandMax) * displacement
        /\ RandMax * TwiceOff(3) = (2 * call.tape[2] - RandMax) * displacement

\* A bolt whose dominant axis is z has been displaced along z
C20_Witness ==
    /\ call.fn = "generateLightning"
    /\ call.depth >= 1
    /\ DominantAxis = 3
    /\ TwiceOff(3) # 0
    /\ TwiceOff(2) # 0

\* The p-th point of the main bolt of the direct call: its start for p = 0, else
\* the end of its p-th leaf
BoltPoint(p) ==
    LET m == MainFloats(call.out.v, call.out.kinds)
    IN  IF p = 0 THEN SubSeq(m, 1, 3) ELSE SubSeq(m, 6 * p - 2, 6 * p)

\* C21: the midpoint made at recursion level k of a call of depth d lies, in y and
\* in z, at (draw - 0.5) * displacement * 0.5^k from the exact average of the two
\* points it was made between, for one of the possible draws, hence at most
\* 0.5 * displacement * 0.5^k away; in x it is the exact average
C21_DisplacementHalves ==
    (call.fn = "generateLightning" /\ call.depth >= 1) =>
        \A k \in 0..(call.depth - 1) :
            \A j \in 0..(Pow2(k) - 1) :
                LET h == Pow2(call.depth - k - 1)
                    p == (2 * j + 1) * h
                    off(a) == 2 * BoltPoint(p)[a].c - BoltPoint(p - h)[a].c
                                  - BoltPoint(p + h)[a].c
                IN  /\ off(1) = 0
                    /\ \A a \in {2, 3} :
                          /\ \E r \in 0..RandMax :
                                RandMax * Pow2(k) * off(a) = (2 * r - RandMax) * displacement
                          /\ Pow2(k) * Abs(off(a)) <= displacement

\* A midpoint of level 1 has been displaced by the largest amount its level allows
C21_Witness ==
    /\ call.fn = "generateLightning"
    /\ call.depth >= 2
    /\ displacement > 0
    /\ LET h == Pow2(call.depth - 2)
       IN  2 * Abs(2 * BoltPoint(h)[2].c - BoltPoint(0)[2].c - BoltPoint(2 * h)[2].c)
               = displacement

\* C27: the main-bolt leaves of one generateLightning call, in emission order, form
\* one connected path for every depth and every draw: the first leaf starts at
\* start, the last ends at end, and each leaf ends where the next starts
C27_ConnectedPath ==
    call.fn = "generateLightning" =>
        LET m == MainFloats(call.out.v, call.out.kinds)
            n == Pow2(call.depth)
        IN  /\ Len(m) = 6 * n
            /\ SubSeq(m, 1, 3) = Floats(CallStart)
            /\ SubSeq(m, 6 * n - 2, 6 * n) = Floats(CallEnd)
            /\ \A p \in 1..(n - 1) :
                  SubSeq(m, 6 * p - 2, 6 * p) = SubSeq(m, 6 * p + 1, 6 * p + 3)

\* A bolt of several leaves with displaced midpoints and a branch between two
\* leaves has been generated
C27_Witness ==
    /\ call.fn = "generateLightning"
    /\ call.depth = DepthBound
    /\ call.out.branches >= 1
    /\ call.out.kinds[7] = "branch"
    /\ BoltPoint(1)[2].c # BoltPoint(2)[2].c

\* The draws consumed before the last pass of the call
PreviousDraws == generateLSystem(call.axiom, call.iterations - 1, call.tape, 0).k

\* What a pass puts in the place of the symbol c when r is the draw made for it:
\* for an 'F' the rule chosen by the draw, else the symbol itself
Piece(c, r) ==
    IF c # "F" THEN <<c>>
    ELSE IF 10 * r < probFF * RandMax THEN <<"F", "F">>
    ELSE IF 10 * r < (probFF + probPlus) * RandMax THEN <<"F", "[", "+", "F", "]">>
    ELSE <<"F", "[", "-", "F", "]">>

\* The pieces of the last pass of the call, one for each symbol of the previous
\* string, the draws counted one per 'F' from the draws of the earlier passes on
LastPieces ==
    LET prev == PreviousPass
        k0 == PreviousDraws
    IN  [i \in 1..Len(prev) |->
            Piece(prev[i], Rand(call.tape, k0 + Count(SubSeq(prev, 1, i - 1), "F")))]

\* C22: a pass replaces every 'F' by "FF" (draw < probFF), "F[+F]" (draw below
\* probFF + probPlus) or "F[-F]" (otherwise) with one draw per 'F', and copies
\* every other symbol at its place, in order
C22_OneRulePerF ==
    (call.fn = "generateLSystem" /\ call.iterations >= 1) =>
        LET pieces == LastPieces
            n == Len(pieces)
            ends[i \in 0..n] == IF i = 0 THEN 0 ELSE ends[i - 1] + Len(pieces[i])
        IN  /\ Len(call.s) = ends[n]
            /\ \A i \in 1..n : SubSeq(call.s, ends[i - 1] + 1, ends[i]) = pieces[i]
            /\ call.k = PreviousDraws + Count(PreviousPass, "F")

\* After a pass that applied F -> FF to a bracketed axiom, a pass has applied the
\* two other rules and copied the brackets and the turn
C22_Witness ==
    /\ call.fn = "generateLSystem"
    /\ call.iterations = 2
    /\ PreviousPass = <<"[", "+", "F", "F", "]">>
    /\ \E i, j \in 1..Len(PreviousPass) :
          /\ LastPieces[i] = <<"F", "[", "+", "F", "]">>
          /\ LastPieces[j] = <<"F", "[", "-", "F", "]">>

\* C26: generateLSystem(axiom, n) holds count_F(axiom) * 2^n 'F' whatever the draws,
\* so the branch interpreted from the axiom "[+F]" or "[-F]" after n passes has 2^n
\* segments, 2^(n+1) vertices of three floats
C26_FCountDoubles ==
    /\ call.fn \in {"generateLSystem", "interpretLSystem"} =>
          Count(call.s, "F") = Count(call.axiom, "F") * Pow2(call.iterations)
    /\ call.fn = "interpretLSystem" =>
          /\ Len(call.out.v) = 3 * 2 * Count(call.axiom, "F") * Pow2(call.iterations)
          /\ \A i \in 1..Len(call.out.kinds) : call.out.kinds[i] = "branch"

\* The branch of "[-F]" after lsystemIterations passes, with the rules mixed, has
\* been interpreted
C26_Witness ==
    /\ call.fn = "interpretLSystem"
    /\ call.axiom = MinusAxiom
    /\ call.iterations = lsystemIterations
    /\ Count(call.s, "[") >= 3
    /\ Len(call.s) < 5 * Pow2(call.iterations)

\* C23: interpretLSystem appends for each 'F' exactly six floats, the current
\* position and then the current position + direction * segmentLength, and makes
\* the latter the current position; for '+', '-', '[', ']' and any other character
\* it appends nothing; what is already in the output is never modified
C23_TwoVerticesPerF ==
    call.fn = "interpretLSystem" =>
        \A n \in 1..Len(call.s) :
            LET a == TurtleAfter(n - 1)
                b == TurtleAfter(n)
                next == Advance(a.pos, a.dir, segmentLength)
            IN  IF call.s[n] = "F"
                THEN /\ b.g.v = a.g.v \o <<Coord(a.pos, 1), Coord(a.pos, 2), Coord(a.pos, 3),
                                            Coord(next, 1), Coord(next, 2), Coord(next, 3)>>
                     /\ b.pos = next
                     /\ b.dir = a.dir
                ELSE /\ b.g.v = a.g.v
                     /\ call.s[n] \notin {"[", "]"} => b.pos = a.pos
                     /\ call.s[n] \notin Alphabet => (b.dir = a.dir /\ b.stack = a.stack)

\* A string with a turn, a character without a case and two segments has been
\* interpreted
C23_Witness ==
    /\ call.fn = "interpretLSystem"
    /\ Len(call.s) = StrLen
    /\ call.s[1] = "F"
    /\ call.s[StrLen] = "F"
    /\ \E i, j \in 2..(StrLen - 1) : call.s[i] = "X" /\ call.s[j] = "+"
    /\ Len(call.out.v) = 12
    /\ call.out.k = 1

\* The step is a call of emitParticlesAlongLightning()
EmitStep == call'.fn = "emitParticlesAlongLightning" /\ frame' = frame + 1

\* The position triple at 0-based triple index t of the vertex buffer
Triple(t) ==
    <<lightningVertices[3 * t + 1], lightningVertices[3 * t + 2], lightningVertices[3 * t + 3]>>

\* C24: emitParticlesAlongLightning goes through the position triples of
\* lightningVertices once, in order, and appends at most one particle per triple,
\* exactly at the triple's position, with life = maxLife and maxLife within
\* [0.5, 1.5] x particleLifetime; the particles already in the list and the vertex
\* buffer are unchanged
C24_OneParticlePerTriple ==
    [][EmitStep =>
          LET old == Len(particles)
              new == Len(particles') - old
              triples == Len(lightningVertices) \div 3
          IN  /\ UNCHANGED buffers
              /\ Len(lightningVertices) = 3 * triples
              /\ new \in 0..triples
              /\ SubSeq(particles', 1, old) = particles
              /\ \E at \in [1..new -> 0..(triples - 1)] :
                    /\ \A i, j \in 1..new : i < j => at[i] < at[j]
                    /\ \A i \in 1..new :
                          /\ particles'[old + i].position.p0 = Triple(at[i])
                          /\ particles'[old + i].position.travel = 0
              /\ \A i \in 1..new :
                    /\ particles'[old + i].life = particles'[old + i].maxLife
                    /\ particleLifetime <= 2 * particles'[old + i].maxLife
                    /\ 2 * particles'[old + i].maxLife <= 3 * particleLifetime]_vars

\* An emission has appended a particle of the longest life behind one that had
\* already aged
C24_Witness ==
    /\ call.fn = "emitParticlesAlongLightning"
    /\ Len(call.before) = 1
    /\ Len(particles) = 2
    /\ particles[1].age > 0
    /\ 2 * particles[2].maxLife = 3 * particleLifetime

\* C25: one updateParticles(deltaTime) handles every particle of the list once,
\* erasures included: the particles left are, in their order, those whose life less
\* deltaTime is positive, each with its life decreased and its position advanced by
\* deltaTime once; none with life <= 0 is left, adjacent expired ones included
C25_EachParticleOnce ==
    call.fn = "updateParticles" =>
        LET kept == SelectSeq(call.before, LAMBDA p : p.life - call.dt > 0)
        IN  /\ Len(particles) = Len(kept)
            /\ \A i \in DOMAIN particles :
                  /\ particles[i].life > 0
                  /\ i <= Len(kept) =>
                        /\ particles[i].life = kept[i].life - call.dt
                        /\ particles[i].position.p0 = kept[i].position.p0
                        /\ particles[i].position.travel = kept[i].position.travel + call.dt
                        /\ particles[i].velocity = kept[i].velocity
                        /\ particles[i].maxLife = kept[i].maxLife

\* One updateParticles has erased two adjacent expired particles
C25_Witness ==
    /\ call.fn = "updateParticles"
    /\ Len(call.before) = 2
    /\ particles = <<>>

\* C28: every particle of the list has had its size assigned
C28_SizeAssigned ==
    \A i \in DOMAIN particles : particles[i].size.assigned

\* C29: the number of sticks is at least 2 and never decreases; a step that adds a
\* stick appends exactly one and leaves lightningVertices, the uploaded buffer and
\* the particles unchanged, so the bolt reaches the new stick only with a later
\* updateLightning, after which it ends at the top of the last stick
C29_AddStickOnlyAppends ==
    [][/\ Len(sticks) >= 2
       /\ Len(sticks') >= Len(sticks)
       /\ Len(sticks') > Len(sticks) =>
             /\ Len(sticks') = Len(sticks) + 1
             /\ SubSeq(sticks', 1, Len(sticks)) = sticks
             /\ UNCHANGED <<buffers, particles>>
             /\ ~Regenerates
       /\ Regenerates =>
             LET m == MainFloats(lightningVertices', vertexKinds')
                 last == sticks'[Len(sticks')]
             IN  /\ Len(m) = 6 * (Len(sticks') - 1) * Pow2(maxDepth')
                 /\ SubSeq(m, Len(m) - 2, Len(m))
                       = Floats(<<last.position[1], last.position[2] + last.height,
                                  last.position[3]>>)]_vars

\* A stick has been added and the bolt still spans the two sticks of the setup
C29_Witness ==
    /\ Len(sticks) = 3
    /\ sticks[3] = NewStick
    /\ CountKind(vertexKinds, "main") = 6 * Pow2(maxDepth)
    /\ vbo = lightningVertices
    /\ frame = MaxFrames

\* s is a prefix of t
IsPrefix(s, t) == Len(s) <= Len(t) /\ SubSeq(t, 1, Len(s)) = s

\* The logs of a whole frame: updateParticles, the timer with or without an
\* emission, the auto-regeneration or not, render, buildUI with what a button or a
\* stick slider calls
FrameOrders ==
    {<<"updateParticles", "particleTimer">> \o emit \o regen \o <<"render", "buildUI">> \o ui :
        emit \in {<<>>, <<"emitParticlesAlongLightning">>},
        regen \in {<<>>, <<"updateLightning">>},
        ui \in {<<>>, <<"updateLightning">>,
                 <<"updateLightning", "emitParticlesAlongLightning">>}}

\* The particle p lies at a position triple of the buffer verts
InBuffer(p, verts) ==
    \E t \in 0..((Len(verts) \div 3) - 1) :
        p.position.p0 = <<verts[3 * t + 1], verts[3 * t + 2], verts[3 * t + 3]>>

\* The particles the step appends
Spawned == {i \in DOMAIN particles' : i > Len(particles) /\ particles'[i].age = 0}

\* C30: the steps of a frame come in the order updateParticles, timer-driven
\* emission, auto-regeneration, render, UI; the timer-driven emission leaves the
\* vertex buffer as it is and spawns at its positions, before the frame's
\* auto-regeneration, and the Regenerate button spawns at the positions of the
\* buffer it has just regenerated
C30_FrameOrder ==
    [][/\ frame' >= 1 => \E full \in FrameOrders : IsPrefix(frameLog', full)
       /\ (pc' = "update" /\ frame' >= 1) => frameLog' \in FrameOrders
       /\ pc = "timer" =>
             /\ UNCHANGED buffers
             /\ ~Regenerates
             /\ pc' = "regen"
             /\ \A i \in Spawned : InBuffer(particles'[i], lightningVertices)
       /\ (pc = "ui" /\ Regenerates) =>
             \A i \in Spawned : InBuffer(particles'[i], lightningVertices')]_vars

\* In one frame the timer has emitted and the Regenerate button has then emitted
\* from a regenerated buffer
C30_Witness ==
    /\ pc = "update"
    /\ frame >= 1
    /\ frameLog = <<"updateParticles", "particleTimer", "emitParticlesAlongLightning",
                    "render", "buildUI", "updateLightning",
                    "emitParticlesAlongLightning">>
    /\ Len(particles) >= 1
    /\ particles[Len(particles)].age = 0

====
